---- MODULE Spec2Model ----
(***************************************************************************)
(* sorted-ranges: SortedRangeMap and SortedRangeSet.                       *)
(*                                                                         *)
(* A SortedRangeMap keeps #entries, an array of [range, value] pairs where *)
(* every range is a two element array object.  The range arrays are        *)
(* mutated in place by the code, so they live in a heap and #entries holds *)
(* references to them.  A SortedRangeSet owns one SortedRangeMap (#map)    *)
(* whose values are all 0.                                                 *)
(*                                                                         *)
(* Numbers handed to the library by a caller may be fractional.  A caller  *)
(* supplied number x is written as the integer 2*x ("half units"), so 0.5  *)
(* is 1 and 1.5 is 3; assertRange turns accepted numbers into integers.    *)
(* Array indices are the code's 0-based indices; a TLA+ sequence holding   *)
(* an array is read at index + 1.                                          *)
(***************************************************************************)
EXTENDS Integers, Sequences, FiniteSets, TLC

\* Keys of the checked universe are 0..MaxKey.
MaxKey == 3

\* Keys of the small universe 0..MaxSmallKey, used for the elements of
\* constructor iterables and by the two-structure specification SpecSlice.
MaxSmallKey == 2

\* Mutations applied after a slice in SpecSlice.
MaxAfter == 1

\* Length of the longest iterable handed to a constructor.
MaxIter == 2

Keys == 0..MaxKey

\* Values a caller associates with ranges of a SortedRangeMap: an ordinary
\* value and the number NaN.
Values == {"a", "NaN"}

\* The value SortedRangeSet stores for every range, the number 0.
Placeholder == "0"

Min(a, b) == IF a < b THEN a ELSE b

Max(a, b) == IF a > b THEN a ELSE b

\* A caller supplied integer x in half units.
Num(x) == 2 * x

\* The integer keys of the inclusive range <<start, end>>.
KeysOf(range) == range[1]..range[2]

\* Valid caller ranges over 0..n, in half units.
ValidRaw(n) == {r \in {<<Num(s), Num(e)>> : s \in 0..n, e \in 0..n} : r[1] <= r[2]}

(***************************************************************************)
(* JavaScript primitives used by the code.                                 *)
(***************************************************************************)

\* ~x on an int32.
BitNot(x) == -x - 1

\* x >>> 1 for 0 <= x < 2^32.
UShr1(x) == x \div 2

\* a === b on values: NaN is not equal to itself.
strictEquals(a, b) == a = b /\ a # "NaN"

\* Number.isSafeInteger on a number in half units (magnitudes stay far
\* below 2^53 here).
isSafeInteger(h) == h % 2 = 0

\* Array.prototype.splice(start, deleteCount, ...items): the resulting array.
splice(arr, start, deleteCount, items) ==
  LET len == Len(arr)
      from == IF start < 0 THEN Max(len + start, 0) ELSE Min(start, len)
      count == Min(Max(deleteCount, 0), len - from)
  IN SubSeq(arr, 1, from) \o items \o SubSeq(arr, from + count + 1, len)

(***************************************************************************)
(* A store is the heap of range arrays together with one map's #entries.   *)
(***************************************************************************)

\* this.size
size(st) == Len(st.ents)

\* The range array object of this.#entries[index].
rangeAt(st, index) == st.heap[st.ents[index + 1].range]

\* A new two element array [start, end]: the heap and its address.
newRange(h, range) == [heap |-> Append(h, range), addr |-> Len(h) + 1]

\* assertRange without the start > end check.
assertRange_unordered(raw) ==
  IF ~isSafeInteger(raw[1]) \/ ~isSafeInteger(raw[2])
  THEN [ok |-> FALSE, range |-> <<0, 0>>]
  ELSE [ok |-> TRUE, range |-> <<raw[1] \div 2, raw[2] \div 2>>]

\* assertRange: throws (ok = FALSE) or returns a new array.
assertRange(raw) ==
  IF ~isSafeInteger(raw[1]) \/ ~isSafeInteger(raw[2]) \/ raw[1] > raw[2]
  THEN [ok |-> FALSE, range |-> <<0, 0>>]
  ELSE [ok |-> TRUE, range |-> <<raw[1] \div 2, raw[2] \div 2>>]

\* cloneRange that hands out the array it was given.
cloneRange_same(h, addr) == [heap |-> h, addr |-> addr]

\* cloneRange: a new array with the same two elements.
cloneRange(h, addr) == newRange(h, h[addr])

\* cloneEntry that hands out the entry's own range array.
cloneEntry_shared(h, entry) == [heap |-> h, entry |-> entry]

\* cloneEntry: a new entry holding a clone of the range and the same value.
cloneEntry(h, entry) ==
  LET c == cloneRange(h, entry.range)
  IN [heap |-> c.heap, entry |-> [range |-> c.addr, value |-> entry.value]]

\* The loop of indexOf.
RECURSIVE search(_, _, _, _)
search(st, key, low, high) ==
  IF low > high
  THEN BitNot(low)
  ELSE LET middle == low + UShr1(high - low)
           r == rangeAt(st, middle)
       IN IF key > r[2] THEN search(st, key, middle + 1, high)
          ELSE IF key < r[1] THEN search(st, key, low, middle - 1)
          ELSE middle

\* SortedRangeMap.indexOf
indexOf(st, key) == search(st, key, 0, size(st) - 1)

\* The end of #indicesOf that reports no intersection whenever neither end
\* of the range is covered, also when entries lie between the two ends.
indicesFrom_endsOnly(firstIndex, lastIndex) ==
  IF firstIndex < 0 /\ lastIndex < 0
  THEN <<>>
  ELSE << IF firstIndex < 0 THEN BitNot(firstIndex) ELSE firstIndex,
          IF lastIndex < 0 THEN BitNot(lastIndex) - 1 ELSE lastIndex >>

\* #indicesOf once firstIndex and lastIndex are searched: <<>> for undefined,
\* else <<firstIndex, lastIndex>>.
indicesFrom(firstIndex, lastIndex) ==
  IF firstIndex < 0 /\ firstIndex = lastIndex
  THEN <<>>
  ELSE << IF firstIndex < 0 THEN BitNot(firstIndex) ELSE firstIndex,
          IF lastIndex < 0 THEN BitNot(lastIndex) - 1 ELSE lastIndex >>

\* lastIndex of #indicesOf: start === end ? firstIndex : this.indexOf(end)
lastIndexOf(st, range, firstIndex) ==
  IF range[1] = range[2] THEN firstIndex ELSE indexOf(st, range[2])

\* #indicesOf once firstIndex is searched.
indicesAfter(st, range, firstIndex) ==
  indicesFrom(firstIndex, lastIndexOf(st, range, firstIndex))

\* #indicesOf
indicesOf(st, range) == indicesAfter(st, range, indexOf(st, range[1]))

\* #maybeMergeWithPreviousEntry that merges adjacent entries whatever their
\* values are.
maybeMergeWithPreviousEntry_anyValue(st, index) ==
  IF index = 0
  THEN st
  ELSE IF st.heap[st.ents[index].range][2] + 1 # rangeAt(st, index)[1]
       THEN st
       ELSE [heap |-> [st.heap EXCEPT ![st.ents[index].range][2] = rangeAt(st, index)[2]],
             ents |-> splice(st.ents, index, 1, <<>>)]

\* #maybeMergeWithPreviousEntry that never merges.
maybeMergeWithPreviousEntry_never(st, index) == st

\* #maybeMergeWithPreviousEntry
maybeMergeWithPreviousEntry(st, index) ==
  IF index = 0
  THEN st
  ELSE LET cur == rangeAt(st, index)
           value == st.ents[index + 1].value
           previousRange == st.ents[index].range
           previousValue == st.ents[index].value
           previousEnd == st.heap[previousRange][2]
           isMergeable == previousEnd + 1 = cur[1] /\ strictEquals(previousValue, value)
       IN IF ~isMergeable
          THEN st
          ELSE [heap |-> [st.heap EXCEPT ![previousRange][2] = cur[2]],
                ents |-> splice(st.ents, index, 1, <<>>)]

\* #deleteFromSingleRange that takes the target to be fully contained only
\* when the deleted range ends after it (deleteEnd > targetEnd).
deleteFromSingleRange_strictEnd(st, targetIndex, range) ==
  LET deleteStart == range[1]
      deleteEnd == range[2]
      targetRange == st.ents[targetIndex + 1].range
      value == st.ents[targetIndex + 1].value
      targetStart == st.heap[targetRange][1]
      targetEnd == st.heap[targetRange][2]
  IN IF deleteStart <= targetStart
     THEN IF deleteEnd > targetEnd
          THEN [st EXCEPT !.ents = splice(@, targetIndex, 1, <<>>)]
          ELSE [st EXCEPT !.heap[targetRange][1] = deleteEnd + 1]
     ELSE IF deleteEnd >= targetEnd
          THEN [st EXCEPT !.heap[targetRange][2] = deleteStart - 1]
          ELSE [heap |-> [Append(st.heap, <<deleteEnd + 1, targetEnd>>)
                            EXCEPT ![targetRange][2] = deleteStart - 1],
                ents |-> splice(st.ents, targetIndex + 1, 0,
                                <<[range |-> Len(st.heap) + 1, value |-> value]>>)]

\* #deleteFromSingleRange that drops the part of the target after a range
\* deleted from its interior.
deleteFromSingleRange_noTail(st, targetIndex, range) ==
  LET deleteStart == range[1]
      deleteEnd == range[2]
      targetRange == st.ents[targetIndex + 1].range
      targetStart == st.heap[targetRange][1]
      targetEnd == st.heap[targetRange][2]
  IN IF deleteStart <= targetStart
     THEN IF deleteEnd >= targetEnd
          THEN [st EXCEPT !.ents = splice(@, targetIndex, 1, <<>>)]
          ELSE [st EXCEPT !.heap[targetRange][1] = deleteEnd + 1]
     ELSE [st EXCEPT !.heap[targetRange][2] = deleteStart - 1]

\* #deleteFromSingleRange that leaves the last deleted key in a target whose
\* front is deleted (start = deleteEnd).
deleteFromSingleRange_keepsLast(st, targetIndex, range) ==
  LET deleteStart == range[1]
      deleteEnd == range[2]
      targetRange == st.ents[targetIndex + 1].range
      value == st.ents[targetIndex + 1].value
      targetStart == st.heap[targetRange][1]
      targetEnd == st.heap[targetRange][2]
  IN IF deleteStart <= targetStart
     THEN IF deleteEnd >= targetEnd
          THEN [st EXCEPT !.ents = splice(@, targetIndex, 1, <<>>)]
          ELSE [st EXCEPT !.heap[targetRange][1] = deleteEnd]
     ELSE IF deleteEnd >= targetEnd
          THEN [st EXCEPT !.heap[targetRange][2] = deleteStart - 1]
          ELSE [heap |-> [Append(st.heap, <<deleteEnd + 1, targetEnd>>)
                            EXCEPT ![targetRange][2] = deleteStart - 1],
                ents |-> splice(st.ents, targetIndex + 1, 0,
                                <<[range |-> Len(st.heap) + 1, value |-> value]>>)]

\* #deleteFromSingleRange whose split gives the part after the deleted range
\* another value than the target's.
deleteFromSingleRange_tailValue(st, targetIndex, range) ==
  LET deleteStart == range[1]
      deleteEnd == range[2]
      targetRange == st.ents[targetIndex + 1].range
      targetStart == st.heap[targetRange][1]
      targetEnd == st.heap[targetRange][2]
  IN IF deleteStart <= targetStart
     THEN IF deleteEnd >= targetEnd
          THEN [st EXCEPT !.ents = splice(@, targetIndex, 1, <<>>)]
          ELSE [st EXCEPT !.heap[targetRange][1] = deleteEnd + 1]
     ELSE IF deleteEnd >= targetEnd
          THEN [st EXCEPT !.heap[targetRange][2] = deleteStart - 1]
          ELSE [heap |-> [Append(st.heap, <<deleteEnd + 1, targetEnd>>)
                            EXCEPT ![targetRange][2] = deleteStart - 1],
                ents |-> splice(st.ents, targetIndex + 1, 0,
                                <<[range |-> Len(st.heap) + 1, value |-> Placeholder]>>)]

\* #deleteFromSingleRange; rangeAfterDelete is a new array at the end of the
\* heap.
deleteFromSingleRange(st, targetIndex, range) ==
  LET deleteStart == range[1]
      deleteEnd == range[2]
      targetRange == st.ents[targetIndex + 1].range
      value == st.ents[targetIndex + 1].value
      targetStart == st.heap[targetRange][1]
      targetEnd == st.heap[targetRange][2]
  IN IF deleteStart <= targetStart
     THEN IF deleteEnd >= targetEnd
          THEN [st EXCEPT !.ents = splice(@, targetIndex, 1, <<>>)]
          ELSE [st EXCEPT !.heap[targetRange][1] = deleteEnd + 1]
     ELSE IF deleteEnd >= targetEnd
          THEN [st EXCEPT !.heap[targetRange][2] = deleteStart - 1]
          ELSE [heap |-> [Append(st.heap, <<deleteEnd + 1, targetEnd>>)
                            EXCEPT ![targetRange][2] = deleteStart - 1],
                ents |-> splice(st.ents, targetIndex + 1, 0,
                                <<[range |-> Len(st.heap) + 1, value |-> value]>>)]

\* The splice of #delete left out: the entries between the first and the
\* last one stay.
deleteBetween_none(st, firstIndex, lastIndex) == st

\* The splice of #delete: the entries between the first and the last one
\* (exclusive) are removed.
deleteBetween(st, firstIndex, lastIndex) ==
  [st EXCEPT !.ents = splice(@, firstIndex + 1, lastIndex - (firstIndex + 1), <<>>)]

\* The last step of #delete removing the whole first entry instead of
\* trimming it.
deleteFirst_whole(st, firstIndex, lastIndex, range) ==
  IF firstIndex # lastIndex THEN [st EXCEPT !.ents = splice(@, firstIndex, 1, <<>>)] ELSE st

\* The last step of #delete: the first entry, unless it is also the last.
deleteFirst(st, firstIndex, lastIndex, range) ==
  IF firstIndex # lastIndex THEN deleteFromSingleRange(st, firstIndex, range) ELSE st

\* #delete once the indices are known.
deleteIndices(st, range, indices) ==
  IF indices = <<>>
  THEN [st |-> st, ret |-> "false"]
  ELSE [st |-> deleteFirst(deleteBetween(deleteFromSingleRange(st, indices[2], range),
                                         indices[1], indices[2]),
                           indices[1], indices[2], range),
        ret |-> "true"]

\* #delete
deletePrivate(st, range) == deleteIndices(st, range, indicesOf(st, range))

\* SortedRangeMap.delete
delete(st, raw) ==
  IF ~assertRange(raw).ok
  THEN [st |-> st, ret |-> "TypeError"]
  ELSE deletePrivate(st, assertRange(raw).range)

\* The merges of set, but with the previous entry first and with the next
\* entry afterwards.
setMerge_previousFirst(st, insertIndex) ==
  IF insertIndex + 1 < size(maybeMergeWithPreviousEntry(st, insertIndex))
  THEN maybeMergeWithPreviousEntry(maybeMergeWithPreviousEntry(st, insertIndex), insertIndex + 1)
  ELSE maybeMergeWithPreviousEntry(st, insertIndex)

\* The merge of set with the next entry left out.
setMergeNext_never(st, nextIndex) == st

\* The merge of set with the next entry.
setMergeNext(st, nextIndex) ==
  IF nextIndex < size(st) THEN maybeMergeWithPreviousEntry(st, nextIndex) ELSE st

\* The merges of set without the merge with the previous entry.
setMerge_nextOnly(st, insertIndex) == setMergeNext(st, insertIndex + 1)

\* The merges of set: with the next entry, then with the previous one.
setMerge(st, insertIndex) ==
  maybeMergeWithPreviousEntry(setMergeNext(st, insertIndex + 1), insertIndex)

\* The insertion of set, one position too far.
setInsert_after(st, insertIndex, entry) ==
  setMerge([st EXCEPT !.ents = splice(@, insertIndex + 1, 0, <<entry>>)], insertIndex)

\* The insertion of set at insertIndex, followed by the merges.
setInsert(st, insertIndex, entry) ==
  setMerge([st EXCEPT !.ents = splice(@, insertIndex, 0, <<entry>>)], insertIndex)

\* set after #delete: insertIndex = ~this.indexOf(range[0])
setAfterDelete(st, start, entry) == setInsert(st, BitNot(indexOf(st, start)), entry)

\* set of an asserted range: the array assertRange returned is the new
\* entry's range.
setRange(st, range, value) ==
  setAfterDelete(deletePrivate([st EXCEPT !.heap = newRange(@, range).heap], range).st,
                 range[1],
                 [range |-> newRange(st.heap, range).addr, value |-> value])

\* SortedRangeMap.set
set(st, raw, value) ==
  IF ~assertRange(raw).ok
  THEN [st |-> st, ret |-> "TypeError"]
  ELSE [st |-> setRange(st, assertRange(raw).range, value), ret |-> "this"]

\* SortedRangeMap.clear
clear(st) == [st |-> [st EXCEPT !.ents = <<>>], ret |-> "undefined"]

\* SortedRangeMap.has
has(st, key) == indexOf(st, key) >= 0

\* The entry get clones.
entryAt(st, index) == [range |-> rangeAt(st, index), value |-> st.ents[index + 1].value]

\* get that returns the first entry for every key that is found.
getAt_first(st, index) == IF index >= 0 THEN <<entryAt(st, 0)>> ELSE <<>>

\* SortedRangeMap.get once the index is searched: <<>> for undefined, else
\* <<[range, value]>>.
getAt(st, index) == IF index >= 0 THEN <<entryAt(st, index)>> ELSE <<>>

\* SortedRangeMap.get
get(st, key) == getAt(st, indexOf(st, key))

\* Array.from({ length }, (_, index) => cloneEntry(entries[firstIndex + index]))
RECURSIVE cloneEntries(_, _, _, _)
cloneEntries(h, ents, firstIndex, length) ==
  IF length = 0
  THEN [heap |-> h, ents |-> <<>>]
  ELSE LET before == cloneEntries(h, ents, firstIndex, length - 1)
           c == cloneEntry(before.heap, ents[firstIndex + length])
       IN [heap |-> c.heap, ents |-> Append(before.ents, c.entry)]

\* The end of slice without cutting the last copied range down to the end of
\* the sliced range.
sliceCut_lastUncut(st, entriesCopy, range) ==
  LET firstRange == entriesCopy.ents[1].range
  IN [st |-> [st EXCEPT !.heap = [entriesCopy.heap EXCEPT ![firstRange][1] = Max(range[1], @)]],
      copy |-> entriesCopy.ents,
      ret |-> "copy"]

\* The end of slice: the first and the last copied range are cut down to
\* the sliced range; copy is the #entries of the returned map.
sliceCut(st, entriesCopy, range) ==
  LET firstRange == entriesCopy.ents[1].range
      lastRange == entriesCopy.ents[Len(entriesCopy.ents)].range
      h1 == [entriesCopy.heap EXCEPT ![firstRange][1] = Max(range[1], @)]
  IN [st |-> [st EXCEPT !.heap = [h1 EXCEPT ![lastRange][2] = Min(range[2], @)]],
      copy |-> entriesCopy.ents,
      ret |-> "copy"]

\* slice once the indices are known.
sliceIndices(st, range, indices) ==
  IF indices = <<>>
  THEN [st |-> st, copy |-> <<>>, ret |-> "copy"]
  ELSE sliceCut(st, cloneEntries(st.heap, st.ents, indices[1], indices[2] - indices[1] + 1), range)

\* SortedRangeMap.slice
slice(st, raw) ==
  IF ~assertRange(raw).ok
  THEN [st |-> st, copy |-> <<>>, ret |-> "TypeError"]
  ELSE sliceIndices(st, assertRange(raw).range, indicesOf(st, assertRange(raw).range))

\* The gap loop of hasAll: TRUE when no gap lies between firstIndex and lastIndex.
RECURSIVE noGaps(_, _, _)
noGaps(st, index, lastIndex) ==
  IF index > lastIndex
  THEN TRUE
  ELSE LET previousEnd == rangeAt(st, index - 1)[2]
           currentStart == rangeAt(st, index)[1]
       IN IF previousEnd + 1 # currentStart
          THEN FALSE
          ELSE noGaps(st, index + 1, lastIndex)

\* hasAll that looks at the two ends of the range only.
hasAll_endsOnly(st, raw) ==
  LET a == assertRange(raw)
      firstIndex == indexOf(st, a.range[1])
      lastIndex == IF a.range[1] = a.range[2] THEN firstIndex ELSE indexOf(st, a.range[2])
  IN IF ~a.ok THEN "TypeError"
     ELSE IF firstIndex < 0 THEN "false"
     ELSE IF lastIndex < 0 THEN "false"
     ELSE "true"

\* SortedRangeMap.hasAll
hasAll(st, raw) ==
  LET a == assertRange(raw)
      start == a.range[1]
      end == a.range[2]
      firstIndex == indexOf(st, start)
      lastIndex == IF start = end THEN firstIndex ELSE indexOf(st, end)
  IN IF ~a.ok THEN "TypeError"
     ELSE IF firstIndex < 0 THEN "false"
     ELSE IF lastIndex < 0 THEN "false"
     ELSE IF noGaps(st, firstIndex + 1, lastIndex) THEN "true" ELSE "false"

\* hasAny that looks at the two ends of the range only.
hasAny_endsOnly(st, raw) ==
  LET a == assertRange(raw)
      firstIndex == indexOf(st, a.range[1])
      lastIndex == IF a.range[1] = a.range[2] THEN firstIndex ELSE indexOf(st, a.range[2])
  IN IF ~a.ok THEN "TypeError"
     ELSE IF firstIndex >= 0 THEN "true"
     ELSE IF lastIndex >= 0 THEN "true"
     ELSE "false"

\* SortedRangeMap.hasAny
hasAny(st, raw) ==
  LET a == assertRange(raw)
      start == a.range[1]
      end == a.range[2]
      firstIndex == indexOf(st, start)
      lastIndex == IF start = end THEN firstIndex ELSE indexOf(st, end)
  IN IF ~a.ok THEN "TypeError"
     ELSE IF firstIndex >= 0 THEN "true"
     ELSE IF lastIndex >= 0 THEN "true"
     ELSE IF firstIndex # lastIndex THEN "true" ELSE "false"

\* Array.prototype.at without the wrap around: a negative index is undefined.
arrayAt_noWrap(arr, index) ==
  IF index < 0 \/ index >= Len(arr) THEN <<>> ELSE <<arr[index + 1]>>

\* Array.prototype.at(index): <<>> for undefined, else <<element>>; a
\* negative index counts back from the end of the array.
arrayAt(arr, index) ==
  LET k == IF index >= 0 THEN index ELSE Len(arr) + index
  IN IF k < 0 \/ k >= Len(arr) THEN <<>> ELSE <<arr[k + 1]>>

\* entry && cloneEntry(entry), by value.
cloneFound(st, found) ==
  IF found = <<>>
  THEN <<>>
  ELSE <<[range |-> st.heap[found[1].range], value |-> found[1].value]>>

\* SortedRangeMap.at
at(st, index) == cloneFound(st, arrayAt(st.ents, index))

\* entry?.[0]: the range of an entry, or undefined.
optionalRange(found) == IF found = <<>> THEN <<>> ELSE <<found[1].range>>

\* SortedRangeSet.at
setAt(st, index) == optionalRange(at(st, index))

\* SortedRangeSet.get
setGet(st, key) == optionalRange(get(st, key))

\* SortedRangeSet.indexOf that answers -1 for every key no range contains.
setIndexOf_minusOne(st, key) == IF indexOf(st, key) >= 0 THEN indexOf(st, key) ELSE -1

\* SortedRangeSet.indexOf
setIndexOf(st, key) == indexOf(st, key)

\* The inner loop of keys stopping before end (key < end).
keysOfRange_exclusive(range) == [i \in 1..(range[2] - range[1]) |-> range[1] + i - 1]

\* The inner loop of keys: start, start + 1, ..., end.
keysOfRange(range) == [i \in 1..(range[2] - range[1] + 1) |-> range[1] + i - 1]

\* The outer loop of keys over the first n entries.
RECURSIVE keysTo(_, _)
keysTo(st, n) ==
  IF n = 0 THEN <<>> ELSE keysTo(st, n - 1) \o keysOfRange(rangeAt(st, n - 1))

\* SortedRangeMap.keys, SortedRangeSet.keys: the keys yielded, in order.
keys(st) == keysTo(st, size(st))

\* entry && cloneEntry(entry) in heap h: the heap and <<>> for undefined or
\* <<the new entry>>.
cloneFoundObject(h, found) ==
  IF found = <<>>
  THEN [heap |-> h, out |-> <<>>]
  ELSE [heap |-> cloneEntry(h, found[1]).heap, out |-> <<cloneEntry(h, found[1]).entry>>]

\* SortedRangeMap.at with the entry it returns as an object of the heap.
atObject(st, index) == cloneFoundObject(st.heap, arrayAt(st.ents, index))

\* this.#entries[index] when index >= 0.
foundAt(st, index) == IF index >= 0 THEN <<st.ents[index + 1]>> ELSE <<>>

\* SortedRangeMap.get with the entry it returns as an object of the heap.
getObject(st, key) == cloneFoundObject(st.heap, foundAt(st, indexOf(st, key)))

\* [...this.entries()] and [...this]: the entries yielded, as objects of the
\* heap.
entriesObjects(st) ==
  [heap |-> cloneEntries(st.heap, st.ents, 0, size(st)).heap,
   out |-> cloneEntries(st.heap, st.ents, 0, size(st)).ents]

\* The value slot of a held array that is a bare range, not an entry.
Bare == "range"

\* The loop of ranges over the first n entries: the ranges yielded, as
\* objects of the heap.
RECURSIVE rangesTo(_, _, _)
rangesTo(h, ents, n) ==
  IF n = 0
  THEN [heap |-> h, out |-> <<>>]
  ELSE LET before == rangesTo(h, ents, n - 1)
           c == cloneRange(before.heap, ents[n].range)
       IN [heap |-> c.heap, out |-> Append(before.out, [range |-> c.addr, value |-> Bare])]

\* [...this.ranges()], and [...set] for a SortedRangeSet.
rangesObjects(st) == rangesTo(st.heap, st.ents, size(st))

\* The constructor loop of SortedRangeMap over the first n entries of iter.
RECURSIVE constructLoop(_, _, _)
constructLoop(st, iter, n) ==
  IF n = 0
  THEN [st |-> st, ret |-> "this"]
  ELSE LET before == constructLoop(st, iter, n - 1)
       IN IF before.ret = "TypeError"
          THEN before
          ELSE set(before.st, iter[n][1], iter[n][2])

\* new SortedRangeMap(entries) that goes through entries from the last one
\* to the first.
SortedRangeMap_reversed(h, iter) ==
  constructLoop([heap |-> h, ents |-> <<>>],
                [i \in 1..Len(iter) |-> iter[Len(iter) + 1 - i]], Len(iter))

\* new SortedRangeMap(entries) in heap h.
SortedRangeMap(h, iter) == constructLoop([heap |-> h, ents |-> <<>>], iter, Len(iter))

\* new SortedRangeMap(entries) and new SortedRangeSet(ranges) when the
\* argument is undefined or null: the loop is skipped.
constructWithout(h) == [st |-> [heap |-> h, ents |-> <<>>], ret |-> "this"]

\* add that stores a value that is not === to itself.
add_NaN(st, raw) == set(st, raw, "NaN")

\* SortedRangeSet.add
add(st, raw) == set(st, raw, Placeholder)

\* new SortedRangeSet(ranges) in heap h: st is the store of its #map.
SortedRangeSet(h, ranges) ==
  SortedRangeMap(h, [i \in 1..Len(ranges) |-> <<ranges[i], Placeholder>>])

(***************************************************************************)
(* State.                                                                  *)
(***************************************************************************)
VARIABLES
  kind,     \* class of the structures: "SortedRangeMap" or "SortedRangeSet"
  heap,     \* the range arrays: address -> <<start, end>>
  entries,  \* #entries of the structure under test (of its #map for a set)
  copy,     \* #entries of the structure a slice returned and the caller kept
  copied,   \* whether the caller keeps a sliced copy
  after,    \* mutations applied since the copy was taken
  model,    \* the reference key -> value map of the tests, <<>> for no value
  op        \* the last call: name, target, arguments and outcome

vars == <<kind, heap, entries, copy, copied, after, model, op>>

\* The store of the structure a call is made on.
Store(t) == [heap |-> heap, ents |-> IF t = "this" THEN entries ELSE copy]

\* Addresses referenced by an entries array, in order.
Refs(ents) == [i \in 1..Len(ents) |-> ents[i].range]

\* The distinct elements of a sequence in order of first appearance.
RECURSIVE Distinct(_)
Distinct(seq) ==
  IF seq = <<>>
  THEN <<>>
  ELSE LET front == Distinct(SubSeq(seq, 1, Len(seq) - 1))
           last == seq[Len(seq)]
       IN IF \E i \in 1..Len(front) : front[i] = last THEN front ELSE Append(front, last)

\* Garbage collection: unreachable arrays are dropped and the reachable ones
\* are numbered in order of first reference from e, then c.
Collect(h, e, c) ==
  LET order == Distinct(Refs(e) \o Refs(c))
      pos(a) == CHOOSE i \in 1..Len(order) : order[i] = a
      ren(ents) == [i \in 1..Len(ents) |-> [ents[i] EXCEPT !.range = pos(@)]]
  IN [heap |-> [i \in 1..Len(order) |-> h[order[i]]], entries |-> ren(e), copy |-> ren(c)]

\* The state after a call on structure t left store st.
Commit(t, st) ==
  LET c == IF t = "this" THEN Collect(st.heap, st.ents, copy)
                         ELSE Collect(st.heap, entries, st.ents)
  IN /\ heap' = c.heap
     /\ entries' = c.entries
     /\ copy' = c.copy

NoArg == <<>>

Call(name, t, range, value, iter, ret) ==
  [name |-> name, target |-> t, range |-> range, value |-> value, iter |-> iter, ret |-> ret]

\* A query leaves the structures as they are, so a run is explored as a
\* sequence of other calls ended by at most one query.
Queries == {"hasAll", "hasAny", "indexOf", "get", "at", "keys", "iterate", "search"}

Running == op.name \notin Queries

\* The caller may mutate structure t: the structure under test, or the copy
\* once there is one; after a slice was kept, MaxAfter mutations follow.
MayMutate(t) ==
  /\ Running
  /\ t = "copy" => copied
  /\ copied => after < MaxAfter

Init ==
  /\ kind \in {"SortedRangeMap", "SortedRangeSet"}
  /\ heap = <<>>
  /\ entries = <<>>
  /\ copy = <<>>
  /\ copied = FALSE
  /\ after = 0
  /\ model = [k \in Keys |-> <<>>]
  /\ op = Call("none", "this", NoArg, NoArg, <<>>, "undefined")

\* The reference model after storing value for every key of an accepted range.
modelSet(m, raw, value) ==
  [k \in Keys |-> IF Num(k) >= raw[1] /\ Num(k) <= raw[2] THEN <<value>> ELSE m[k]]

\* The reference model after deleting every key of an accepted range.
modelDelete(m, raw) ==
  [k \in Keys |-> IF Num(k) >= raw[1] /\ Num(k) <= raw[2] THEN <<>> ELSE m[k]]

\* The reference model restricted to the keys of an accepted range.
modelSlice(m, raw) ==
  [k \in Keys |-> IF Num(k) >= raw[1] /\ Num(k) <= raw[2] THEN m[k] ELSE <<>>]

\* map.set(range, value)
SetCall(t, raw, value) ==
  /\ kind = "SortedRangeMap"
  /\ MayMutate(t)
  /\ LET r == set(Store(t), raw, value)
     IN /\ Commit(t, r.st)
        /\ op' = Call("set", t, raw, <<value>>, <<>>, r.ret)
        /\ model' = IF t = "this" /\ r.ret # "TypeError" THEN modelSet(model, raw, value) ELSE model
  /\ after' = IF copied THEN after + 1 ELSE after
  /\ UNCHANGED <<kind, copied>>

\* set.add(range)
AddCall(t, raw) ==
  /\ kind = "SortedRangeSet"
  /\ MayMutate(t)
  /\ LET r == add(Store(t), raw)
     IN /\ Commit(t, r.st)
        /\ op' = Call("add", t, raw, NoArg, <<>>, r.ret)
        /\ model' = IF t = "this" /\ r.ret # "TypeError" THEN modelSet(model, raw, Placeholder) ELSE model
  /\ after' = IF copied THEN after + 1 ELSE after
  /\ UNCHANGED <<kind, copied>>

\* map.delete(range), set.delete(range)
DeleteCall(t, raw) ==
  /\ MayMutate(t)
  /\ LET r == delete(Store(t), raw)
     IN /\ Commit(t, r.st)
        /\ op' = Call("delete", t, raw, NoArg, <<>>, r.ret)
        /\ model' = IF t = "this" /\ r.ret # "TypeError" THEN modelDelete(model, raw) ELSE model
  /\ after' = IF copied THEN after + 1 ELSE after
  /\ UNCHANGED <<kind, copied>>

\* map.clear(), set.clear()
ClearCall(t) ==
  /\ MayMutate(t)
  /\ LET r == clear(Store(t))
     IN /\ Commit(t, r.st)
        /\ op' = Call("clear", t, NoArg, NoArg, <<>>, r.ret)
        /\ model' = IF t = "this" THEN [k \in Keys |-> <<>>] ELSE model
  /\ after' = IF copied THEN after + 1 ELSE after
  /\ UNCHANGED <<kind, copied>>

\* real.value = real.value.slice(range): the slice replaces the structure
\* under test, as in the slice command of the tests.
SliceCall(raw) ==
  /\ Running
  /\ ~copied
  /\ LET r == slice(Store("this"), raw)
         c == IF r.ret = "TypeError" THEN Collect(r.st.heap, entries, <<>>)
                                     ELSE Collect(r.st.heap, r.copy, <<>>)
     IN /\ heap' = c.heap
        /\ entries' = c.entries
        /\ op' = Call("slice", "this", raw, NoArg, <<>>, r.ret)
        /\ model' = IF r.ret # "TypeError" THEN modelSlice(model, raw) ELSE model
  /\ UNCHANGED <<kind, copy, copied, after>>

\* copy = this.slice(range): the caller keeps both structures.
SliceKeepCall(raw) ==
  /\ ~copied
  /\ op.name # "none"
  /\ LET r == slice(Store("this"), raw)
         c == Collect(r.st.heap, r.st.ents, r.copy)
     IN /\ heap' = c.heap
        /\ entries' = c.entries
        /\ copy' = c.copy
        /\ copied' = (r.ret # "TypeError")
        /\ op' = Call("slice", "this", raw, NoArg, <<>>, r.ret)
  /\ UNCHANGED <<kind, after, model>>

\* this.hasAll(range)
HasAllCall(raw) ==
  /\ Running
  /\ op' = Call("hasAll", "this", raw, NoArg, <<>>, hasAll(Store("this"), raw))
  /\ UNCHANGED <<kind, heap, entries, copy, copied, after, model>>

\* this.hasAny(range)
HasAnyCall(raw) ==
  /\ Running
  /\ op' = Call("hasAny", "this", raw, NoArg, <<>>, hasAny(Store("this"), raw))
  /\ UNCHANGED <<kind, heap, entries, copy, copied, after, model>>

\* The record of a query that takes a number and returns a value: out is
\* <<>> for undefined, else <<value>>.
Query(name, arg, out) ==
  [name |-> name, target |-> "this", range |-> NoArg, value |-> NoArg, iter |-> <<>>,
   ret |-> "returned", arg |-> arg, out |-> out]

\* this.indexOf(key)
IndexOfCall(key) ==
  /\ Running
  /\ op' = Query("indexOf", key, IF kind = "SortedRangeSet" THEN <<setIndexOf(Store("this"), key)>>
                                                            ELSE <<indexOf(Store("this"), key)>>)
  /\ UNCHANGED <<kind, heap, entries, copy, copied, after, model>>

\* this.get(key): an entry of a map, a range of a set.
GetCall(key) ==
  /\ Running
  /\ op' = Query("get", key, IF kind = "SortedRangeSet" THEN setGet(Store("this"), key)
                                                        ELSE get(Store("this"), key))
  /\ UNCHANGED <<kind, heap, entries, copy, copied, after, model>>

\* this.at(index): an entry of a map, a range of a set.
AtCall(index) ==
  /\ Running
  /\ op' = Query("at", index, IF kind = "SortedRangeSet" THEN setAt(Store("this"), index)
                                                         ELSE at(Store("this"), index))
  /\ UNCHANGED <<kind, heap, entries, copy, copied, after, model>>

\* [...this.keys()]
KeysCall ==
  /\ Running
  /\ op' = Query("keys", 0, <<keys(Store("this"))>>)
  /\ UNCHANGED <<kind, heap, entries, copy, copied, after, model>>

\* Keys a caller asks about: the universe and one key on either side.
QueryKeys == (-1)..(MaxKey + 1)

\* Indices a caller asks for: every entry from either end, and beyond.
QueryIndices == (-(MaxKey + 2))..(MaxKey + 2)

\* The reference model built key by key from the first n entries of iter.
RECURSIVE modelNew(_, _)
modelNew(iter, n) ==
  IF n = 0
  THEN [k \in Keys |-> <<>>]
  ELSE modelSet(modelNew(iter, n - 1), iter[n][1], iter[n][2])

\* The structure under test becomes new SortedRangeMap(iter); when the
\* constructor throws there is no new structure.
NewMapCall(iter) ==
  /\ kind = "SortedRangeMap"
  /\ op.name = "none"
  /\ LET r == SortedRangeMap(heap, iter)
         c == IF r.ret = "TypeError" THEN Collect(r.st.heap, entries, copy)
                                     ELSE Collect(r.st.heap, r.st.ents, copy)
     IN /\ heap' = c.heap
        /\ entries' = c.entries
        /\ op' = Call("new", "this", NoArg, NoArg, iter, r.ret)
        /\ model' = IF r.ret = "TypeError" THEN model ELSE modelNew(iter, Len(iter))
  /\ UNCHANGED <<kind, copy, copied, after>>

\* The structure under test becomes new SortedRangeSet(ranges).
NewSetCall(ranges) ==
  /\ kind = "SortedRangeSet"
  /\ op.name = "none"
  /\ LET r == SortedRangeSet(heap, ranges)
         c == IF r.ret = "TypeError" THEN Collect(r.st.heap, entries, copy)
                                     ELSE Collect(r.st.heap, r.st.ents, copy)
         iter == [i \in 1..Len(ranges) |-> <<ranges[i], Placeholder>>]
     IN /\ heap' = c.heap
        /\ entries' = c.entries
        /\ op' = Call("new", "this", NoArg, NoArg, iter, r.ret)
        /\ model' = IF r.ret = "TypeError" THEN model ELSE modelNew(iter, Len(iter))
  /\ UNCHANGED <<kind, copy, copied, after>>

\* The structure under test becomes new SortedRangeMap(arg) or new
\* SortedRangeSet(arg) for an argument that is undefined or null.
NewWithoutCall(arg) ==
  /\ op.name = "none"
  /\ LET r == constructWithout(heap)
         c == Collect(r.st.heap, r.st.ents, copy)
     IN /\ heap' = c.heap
        /\ entries' = c.entries
        /\ op' = Query("newWithout", arg, <<r.ret>>)
  /\ model' = [k \in Keys |-> <<>>]
  /\ UNCHANGED <<kind, copy, copied, after>>

\* The arguments for which a constructor skips its loop.
Nullish == {"undefined", "null"}

\* The ranges the tests reject: [0.5, 1], [0, 1.5] and [1, 0].
InvalidRaw == {<<1, Num(1)>>, <<Num(0), 3>>, <<Num(1), Num(0)>>}

\* Ranges a caller passes in Spec.
RawRanges == ValidRaw(MaxKey) \cup InvalidRaw

\* Ranges a caller puts in a constructor's iterable.
IterRanges == ValidRaw(MaxSmallKey) \cup InvalidRaw

\* Sequences over S of length at most n.
SeqsUpTo(S, n) == UNION {[1..m -> S] : m \in 0..n}

Next ==
  \/ \E iter \in SeqsUpTo(IterRanges \X Values, MaxIter) : NewMapCall(iter)
  \/ \E ranges \in SeqsUpTo(IterRanges, MaxIter) : NewSetCall(ranges)
  \/ \E arg \in Nullish : NewWithoutCall(arg)
  \/ \E raw \in RawRanges, value \in Values : SetCall("this", raw, value)
  \/ \E raw \in RawRanges : AddCall("this", raw)
  \/ \E raw \in RawRanges : DeleteCall("this", raw)
  \/ ClearCall("this")
  \/ \E raw \in RawRanges : SliceCall(raw)
  \/ \E raw \in RawRanges : HasAllCall(raw)
  \/ \E raw \in RawRanges : HasAnyCall(raw)
  \/ \E key \in QueryKeys : IndexOfCall(key)
  \/ \E key \in QueryKeys : GetCall(key)
  \/ \E index \in QueryIndices : AtCall(index)
  \/ KeysCall

Spec == Init /\ [][Next]_vars

\* Two structures: a structure is built, sliced, and then either one is
\* mutated.
NextSlice ==
  \/ \E iter \in SeqsUpTo(ValidRaw(MaxSmallKey) \X Values, MaxIter) : NewMapCall(iter)
  \/ \E ranges \in SeqsUpTo(ValidRaw(MaxSmallKey), MaxIter) : NewSetCall(ranges)
  \/ \E raw \in ValidRaw(MaxSmallKey) : SliceKeepCall(raw)
  \/ \E t \in {"this", "copy"} :
       \/ \E raw \in ValidRaw(MaxSmallKey), value \in Values : SetCall(t, raw, value)
       \/ \E raw \in ValidRaw(MaxSmallKey) : AddCall(t, raw)
       \/ \E raw \in ValidRaw(MaxSmallKey) : DeleteCall(t, raw)
       \/ ClearCall(t)

SpecSlice == Init /\ [][NextSlice]_vars

\* The caller may keep what a call hands out: once, of a structure that
\* was constructed or called before.
MayKeep ==
  /\ Running
  /\ ~copied
  /\ op.name # "none"

\* The caller keeps what a call handed out: copy holds the objects, and out
\* is empty when the call returned undefined or yielded nothing.
Keep(name, arg, r) ==
  /\ heap' = Collect(r.heap, entries, r.out).heap
  /\ entries' = Collect(r.heap, entries, r.out).entries
  /\ copy' = Collect(r.heap, entries, r.out).copy
  /\ copied' = (r.out # <<>>)
  /\ op' = Query(name, arg, <<>>)
  /\ UNCHANGED <<kind, after, model>>

\* held = this.get(key)
GetKeepCall(key) ==
  /\ MayKeep
  /\ Keep("keepGet", key, getObject(Store("this"), key))

\* held = this.at(index)
AtKeepCall(index) ==
  /\ MayKeep
  /\ Keep("keepAt", index, atObject(Store("this"), index))

\* held = [...this.entries()], held = [...map]
EntriesKeepCall ==
  /\ MayKeep
  /\ Keep("keepEntries", 0, entriesObjects(Store("this")))

\* held = [...this.ranges()], held = [...set]
RangesKeepCall ==
  /\ MayKeep
  /\ Keep("keepRanges", 0, rangesObjects(Store("this")))

\* The caller may write to a held object: not twice in a row.
MayWrite(i) ==
  /\ copied
  /\ i \in 1..Len(copy)
  /\ op.name \notin {"write", "writeValue"}

\* held[i][j] = v for a held range, held[i][0][j] = v for a held entry.
WriteCall(i, j, v) ==
  /\ MayWrite(i)
  /\ heap' = [heap EXCEPT ![copy[i].range][j] = v]
  /\ op' = Query("write", i, <<j, v>>)
  /\ UNCHANGED <<kind, entries, copy, copied, after, model>>

\* held[i][1] = v for a held entry.
WriteValueCall(i, v) ==
  /\ MayWrite(i)
  /\ copy[i].value # Bare
  /\ copy' = [copy EXCEPT ![i].value = v]
  /\ op' = Query("writeValue", i, <<v>>)
  /\ UNCHANGED <<kind, heap, entries, copied, after, model>>

\* The caller's array held[i] read as a range argument.
HeldRaw(i) == <<Num(heap[copy[i].range][1]), Num(heap[copy[i].range][2])>>

\* map.set(held[i], value) with a held range, map.set(held[i][0], value)
\* with a held entry: the caller goes on holding the array.
SetHeldCall(i, value) ==
  /\ copied
  /\ i \in 1..Len(copy)
  /\ SetCall("this", HeldRaw(i), value)

\* set.add(held[i])
AddHeldCall(i) ==
  /\ copied
  /\ i \in 1..Len(copy)
  /\ AddCall("this", HeldRaw(i))

\* A structure is built, the caller keeps objects it hands out, writes to
\* them, passes them back, and goes on calling the structure.
NextCaller ==
  \/ \E iter \in SeqsUpTo(ValidRaw(MaxSmallKey) \X Values, MaxIter) : NewMapCall(iter)
  \/ \E ranges \in SeqsUpTo(ValidRaw(MaxSmallKey), MaxIter) : NewSetCall(ranges)
  \/ \E raw \in ValidRaw(MaxSmallKey), value \in Values : SetCall("this", raw, value)
  \/ \E raw \in ValidRaw(MaxSmallKey) : AddCall("this", raw)
  \/ \E raw \in ValidRaw(MaxSmallKey) : DeleteCall("this", raw)
  \/ \E key \in 0..MaxSmallKey : GetKeepCall(key)
  \/ \E index \in {0, -1} : AtKeepCall(index)
  \/ EntriesKeepCall
  \/ RangesKeepCall
  \/ \E i \in 1..(MaxSmallKey + 1), j \in 1..2, v \in {0, MaxSmallKey} : WriteCall(i, j, v)
  \/ \E i \in 1..(MaxSmallKey + 1), v \in Values : WriteValueCall(i, v)
  \/ \E i \in 1..(MaxSmallKey + 1), value \in Values : SetHeldCall(i, value)
  \/ \E i \in 1..(MaxSmallKey + 1) : AddHeldCall(i)

SpecCaller == Init /\ [][NextCaller]_vars

\* The ranges the README usage adds to rangeSet.
ReadmeAdds == {<<Num(5), Num(6)>>, <<Num(1), Num(4)>>, <<Num(3), Num(7)>>, <<Num(-4), Num(-2)>>}

\* The ranges the README usage deletes.
ReadmeDeletes == {<<Num(3), Num(5)>>, <<Num(-5), Num(0)>>}

\* The keys the README usage passes to indexOf.
ReadmeKeys == {0, 1, 2, 6, 7, 8}

\* The values the README usage stores in rangeMap: 42, 3 and 8.
ReadmeValues == {"42", "3", "8"}

\* The calls of the README usage, in any order.
NextReadme ==
  \/ \E raw \in ReadmeAdds : AddCall("this", raw)
  \/ \E raw \in ReadmeAdds, value \in ReadmeValues : SetCall("this", raw, value)
  \/ \E raw \in ReadmeDeletes : DeleteCall("this", raw)
  \/ ClearCall("this")
  \/ \E key \in ReadmeKeys : IndexOfCall(key)

SpecReadme == Init /\ [][NextReadme]_vars

\* map.set(range, value) followed by map.delete(range): the TypeError of set
\* ends the sequence.
setThenDelete(st, raw, value) ==
  IF set(st, raw, value).ret = "TypeError"
  THEN set(st, raw, value)
  ELSE delete(set(st, raw, value).st, raw)

\* any = this.hasAny(range); this.set(range, value);
\* deleted = this.delete(range)
SetDeleteCall(raw, value) ==
  /\ kind = "SortedRangeMap"
  /\ MayMutate("this")
  /\ LET r == setThenDelete(Store("this"), raw, value)
     IN /\ Commit("this", r.st)
        /\ op' = [name |-> "setDelete", target |-> "this", range |-> raw, value |-> <<value>>,
                  iter |-> <<>>, ret |-> r.ret, any |-> hasAny(Store("this"), raw)]
        /\ model' = IF r.ret # "TypeError" THEN modelDelete(model, raw) ELSE model
  /\ UNCHANGED <<kind, copied, after>>

\* any = this.hasAny(range); this.add(range); deleted = this.delete(range)
AddDeleteCall(raw) ==
  /\ kind = "SortedRangeSet"
  /\ MayMutate("this")
  /\ LET r == setThenDelete(Store("this"), raw, Placeholder)
     IN /\ Commit("this", r.st)
        /\ op' = [name |-> "addDelete", target |-> "this", range |-> raw, value |-> NoArg,
                  iter |-> <<>>, ret |-> r.ret, any |-> hasAny(Store("this"), raw)]
        /\ model' = IF r.ret # "TypeError" THEN modelDelete(model, raw) ELSE model
  /\ UNCHANGED <<kind, copied, after>>

\* A structure is built and the caller sets ranges and deletes them again.
NextUndo ==
  \/ \E iter \in SeqsUpTo(ValidRaw(MaxSmallKey) \X Values, MaxIter) : NewMapCall(iter)
  \/ \E ranges \in SeqsUpTo(ValidRaw(MaxSmallKey), MaxIter) : NewSetCall(ranges)
  \/ \E raw \in ValidRaw(MaxSmallKey), value \in Values : SetCall("this", raw, value)
  \/ \E raw \in ValidRaw(MaxSmallKey) : AddCall("this", raw)
  \/ \E raw \in ValidRaw(MaxSmallKey) \cup InvalidRaw, value \in Values : SetDeleteCall(raw, value)
  \/ \E raw \in ValidRaw(MaxSmallKey) \cup InvalidRaw : AddDeleteCall(raw)

SpecUndo == Init /\ [][NextUndo]_vars

\* indexOf at the first test of its loop: low = 0, high = this.size - 1, no
\* index probed and nothing returned yet.
searchStart(st) ==
  [low |-> 0, high |-> size(st) - 1, middle |-> <<>>, done |-> FALSE, threw |-> FALSE,
   out |-> <<>>]

\* An iteration of the loop of indexOf that keeps the lower half: low stays
\* at middle.
searchProbe_lowStays(st, key, s, middle) ==
  IF middle < 0 \/ middle >= size(st)
  THEN [s EXCEPT !.middle = <<middle>>, !.done = TRUE, !.threw = TRUE]
  ELSE IF key > rangeAt(st, middle)[2]
       THEN [s EXCEPT !.middle = <<middle>>, !.low = middle]
       ELSE IF key < rangeAt(st, middle)[1]
            THEN [s EXCEPT !.middle = <<middle>>, !.high = middle - 1]
            ELSE [s EXCEPT !.middle = <<middle>>, !.done = TRUE, !.out = <<middle>>]

\* An iteration of the loop of indexOf with middle computed: destructuring
\* this.#entries[middle] throws a TypeError when there is no such entry.
searchProbe(st, key, s, middle) ==
  IF middle < 0 \/ middle >= size(st)
  THEN [s EXCEPT !.middle = <<middle>>, !.done = TRUE, !.threw = TRUE]
  ELSE IF key > rangeAt(st, middle)[2]
       THEN [s EXCEPT !.middle = <<middle>>, !.low = middle + 1]
       ELSE IF key < rangeAt(st, middle)[1]
            THEN [s EXCEPT !.middle = <<middle>>, !.high = middle - 1]
            ELSE [s EXCEPT !.middle = <<middle>>, !.done = TRUE, !.out = <<middle>>]

\* The test of the loop of indexOf and the iteration or the return ~low that
\* follows it.
searchStep(st, key, s) ==
  IF s.low <= s.high
  THEN searchProbe(st, key, s, s.low + UShr1(s.high - s.low))
  ELSE [s EXCEPT !.done = TRUE, !.out = <<BitNot(s.low)>>]

\* this.indexOf(key) in progress: s is the state of its loop.
Searching(key, s) ==
  [name |-> "search", target |-> "this", range |-> NoArg, value |-> NoArg, iter |-> <<>>,
   ret |-> IF s.threw THEN "TypeError" ELSE IF s.done THEN "returned" ELSE "running",
   key |-> key, s |-> s]

\* this.indexOf(key) is called.
SearchCall(key) ==
  /\ Running
  /\ op' = Searching(key, searchStart(Store("this")))
  /\ UNCHANGED <<kind, heap, entries, copy, copied, after, model>>

\* The loop of indexOf goes on by one test.
SearchStep ==
  /\ op.name = "search"
  /\ ~op.s.done
  /\ op' = Searching(op.key, searchStep(Store("this"), op.key, op.s))
  /\ UNCHANGED <<kind, heap, entries, copy, copied, after, model>>

\* A structure is built and indexOf runs on it, one loop test at a time; a
\* call that started runs on until it returns.
NextSearch ==
  \/ \E iter \in SeqsUpTo(ValidRaw(MaxSmallKey) \X Values, MaxIter) : NewMapCall(iter)
  \/ \E ranges \in SeqsUpTo(ValidRaw(MaxSmallKey), MaxIter) : NewSetCall(ranges)
  \/ \E raw \in ValidRaw(MaxKey), value \in Values : SetCall("this", raw, value)
  \/ \E raw \in ValidRaw(MaxKey) : AddCall("this", raw)
  \/ \E raw \in ValidRaw(MaxKey) : DeleteCall("this", raw)
  \/ \E key \in QueryKeys : SearchCall(key)
  \/ SearchStep

SpecSearch == Init /\ [][NextSearch]_vars /\ WF_vars(SearchStep)

\* A generator object that has not started: the position of its loop over
\* this.#entries, the key of the inner loop of keys, and whether it returned.
Generator == [index |-> 0, key |-> 0, inner |-> FALSE, done |-> FALSE]

\* The generator returned: next() reports done without a value.
generatorReturn(g) == [g |-> [g EXCEPT !.done = TRUE], out |-> <<>>]

\* The entry array a yield of entries() hands out, read as [range, value].
yieldEntry(c) == <<c.heap[c.entry.range], c.entry.value>>

\* The body of *entries() resumed: yields a clone of the entry at the
\* position, or returns at the end of this.#entries.
entriesNext(st, g) ==
  IF g.index < size(st)
  THEN [g |-> [g EXCEPT !.index = @ + 1],
        out |-> <<yieldEntry(cloneEntry(st.heap, st.ents[g.index + 1]))>>]
  ELSE generatorReturn(g)

\* The entry the loops of *keys() are at after the resumption: the next one
\* once key++ passed the end of the current one.
keysIndex(st, g) ==
  IF g.inner /\ g.key + 1 > rangeAt(st, g.index)[2] THEN g.index + 1 ELSE g.index

\* The body of *keys() resumed: the next key of the current entry, or the
\* start of the next entry, or the return at the end of this.#entries.
keysNext(st, g, index) ==
  IF index >= size(st)
  THEN generatorReturn(g)
  ELSE IF g.inner /\ index = g.index
       THEN [g |-> [g EXCEPT !.key = @ + 1], out |-> <<g.key + 1>>]
       ELSE [g |-> [g EXCEPT !.index = index, !.inner = TRUE, !.key = rangeAt(st, index)[1]],
             out |-> <<rangeAt(st, index)[1]>>]

\* The range array a yield of ranges() hands out.
yieldRange(c) == c.heap[c.addr]

\* The body of *ranges() resumed.
rangesNext(st, g) ==
  IF g.index < size(st)
  THEN [g |-> [g EXCEPT !.index = @ + 1],
        out |-> <<yieldRange(cloneRange(st.heap, st.ents[g.index + 1].range))>>]
  ELSE generatorReturn(g)

\* The body of *values() resumed.
valuesNext(st, g) ==
  IF g.index < size(st)
  THEN [g |-> [g EXCEPT !.index = @ + 1], out |-> <<st.ents[g.index + 1].value>>]
  ELSE generatorReturn(g)

\* next() of the generator object which() returned: a generator that
\* returned stays done.
next(st, which, g) ==
  IF g.done THEN [g |-> g, out |-> <<>>]
  ELSE IF which = "entries" THEN entriesNext(st, g)
  ELSE IF which = "keys" THEN keysNext(st, g, keysIndex(st, g))
  ELSE IF which = "ranges" THEN rangesNext(st, g)
  ELSE valuesNext(st, g)

\* The iterables of a structure: entries, [Symbol.iterator], keys, ranges and
\* values of a SortedRangeMap, [Symbol.iterator] (ranges) and keys of a
\* SortedRangeSet.
Iterables ==
  IF kind = "SortedRangeSet" THEN {"ranges", "keys"} ELSE {"entries", "keys", "ranges", "values"}

\* The caller iterating over the object it = this.which(): the generator,
\* the pass over it, what the pass yielded so far, whether next() ended it,
\* and what the first pass yielded.
Iterating(which, g, pass, out, ended, first) ==
  [name |-> "iterate", target |-> "this", range |-> NoArg, value |-> NoArg, iter |-> <<>>,
   ret |-> "returned", which |-> which, g |-> g, pass |-> pass, out |-> out,
   ended |-> ended, first |-> first]

\* it = this.which(); for (const x of it): the generator object is created
\* and its body has not started.
IterateCall(which) ==
  /\ Running
  /\ which \in Iterables
  /\ op' = Iterating(which, Generator, 1, <<>>, FALSE, <<>>)
  /\ UNCHANGED <<kind, heap, entries, copy, copied, after, model>>

\* The loop's next call of it.next(): a value is yielded to the loop, or the
\* loop ends.
IterateNext(r) ==
  op' = Iterating(op.which, r.g, op.pass, op.out \o r.out, r.out = <<>>,
                  IF op.pass = 1 /\ r.out = <<>> THEN op.out ELSE op.first)

NextCall ==
  /\ op.name = "iterate"
  /\ ~op.ended
  /\ IterateNext(next(Store("this"), op.which, op.g))
  /\ UNCHANGED <<kind, heap, entries, copy, copied, after, model>>

\* A second for (const x of it) over the same object once the first ended:
\* it[Symbol.iterator]() of a generator object is the object itself.
IterateAgainCall ==
  /\ op.name = "iterate"
  /\ op.ended
  /\ op.pass = 1
  /\ op' = Iterating(op.which, op.g, 2, <<>>, FALSE, op.first)
  /\ UNCHANGED <<kind, heap, entries, copy, copied, after, model>>

\* A caller that builds a structure and then iterates over one of its
\* iterables, twice over the same object.
NextIter ==
  \/ \E iter \in SeqsUpTo(ValidRaw(MaxSmallKey) \X Values, MaxIter) : NewMapCall(iter)
  \/ \E ranges \in SeqsUpTo(ValidRaw(MaxSmallKey), MaxIter) : NewSetCall(ranges)
  \/ \E raw \in ValidRaw(MaxSmallKey), value \in Values : SetCall("this", raw, value)
  \/ \E raw \in ValidRaw(MaxSmallKey) : AddCall("this", raw)
  \/ \E raw \in ValidRaw(MaxSmallKey) : DeleteCall("this", raw)
  \/ \E which \in {"entries", "keys", "ranges", "values"} : IterateCall(which)
  \/ NextCall
  \/ IterateAgainCall

SpecIter == Init /\ [][NextIter]_vars

(***************************************************************************)
(* Observations used by the properties.                                    *)
(***************************************************************************)

\* The entries of a structure as values: <<<<start, end>>, value>> in order,
\* what default iteration and entries() yield.
Contents(h, ents) == [i \in 1..Len(ents) |-> <<h[ents[i].range], ents[i].value>>]

ThisContents == Contents(heap, entries)

CopyContents == Contents(heap, copy)

This == Store("this")

\* The values of the entries of a structure whose range contains key k:
\* empty when k is not covered.
Assoc(h, ents, k) ==
  {ents[i].value : i \in {j \in 1..Len(ents) : h[ents[j].range][1] <= k /\ k <= h[ents[j].range][2]}}

ThisAssoc == [k \in Keys |-> Assoc(heap, entries, k)]

\* The integer range a caller's valid range denotes.
RangeOf(raw) == <<raw[1] \div 2, raw[2] \div 2>>

\* A caller's range the library must reject: start > end or a fractional end.
Rejected(raw) == raw[1] > raw[2] \/ raw[1] % 2 # 0 \/ raw[2] % 2 # 0

\* The run-length encoding of the keys 0..k of a key -> value map: one
\* <<<<start, end>>, value>> per maximal run of consecutive keys that carry
\* the same value.
RECURSIVE RunLengthTo(_, _)
RunLengthTo(m, k) ==
  IF k < 0
  THEN <<>>
  ELSE LET before == RunLengthTo(m, k - 1)
           n == Len(before)
       IN IF m[k] = <<>>
          THEN before
          ELSE IF n > 0 /\ before[n][1][2] + 1 = k /\ before[n][2] = m[k][1]
               THEN [before EXCEPT ![n][1][2] = k]
               ELSE Append(before, <<<<k, k>>, m[k][1]>>)

RunLength(m) == RunLengthTo(m, MaxKey)

TypeOK ==
  /\ \A i \in 1..Len(entries) : entries[i].range \in 1..Len(heap)
  /\ \A i \in 1..Len(copy) : copy[i].range \in 1..Len(heap)
  /\ after \in 0..MaxAfter

(***************************************************************************)
(* Properties.                                                             *)
(***************************************************************************)

\* C1: after construction and after any sequence of set, delete, clear and
\* slice calls the entries of a SortedRangeMap are sorted and disjoint: each
\* entry ends before the next one starts, whatever the two values are.
C1_SortedDisjoint ==
  kind = "SortedRangeMap" =>
    \A i \in 1..(Len(entries) - 1) :
      heap[entries[i].range][2] < heap[entries[i + 1].range][1]

\* C1 witness: a delete left two entries with the same value side by side.
C1_Witness ==
  /\ kind = "SortedRangeMap"
  /\ op.name = "delete" /\ op.ret = "true"
  /\ \E i \in 1..(Len(entries) - 1) : entries[i].value = entries[i + 1].value

\* C2: a SortedRangeMap is minimal: no two consecutive entries are adjacent
\* (end + 1 = next start) and carry values that are equal under ===.
C2_Minimal ==
  kind = "SortedRangeMap" =>
    \A i \in 1..(Len(entries) - 1) :
      ~(/\ heap[entries[i].range][2] + 1 = heap[entries[i + 1].range][1]
        /\ strictEquals(entries[i].value, entries[i + 1].value))

\* C2 witness: a set was merged with both neighbours, so the single entry
\* left reaches beyond the range that was set on both sides.
C2_Witness ==
  /\ kind = "SortedRangeMap"
  /\ op.name = "set" /\ op.ret = "this"
  /\ Len(entries) = 1
  /\ heap[entries[1].range][1] < RangeOf(op.range)[1]
  /\ heap[entries[1].range][2] > RangeOf(op.range)[2]

\* C3: the entries of a SortedRangeMap equal the run-length encoding of the
\* reference key-to-value map updated key by key, one entry per maximal run
\* of consecutive keys with the same value, and size is the number of runs.
C3_Refinement ==
  kind = "SortedRangeMap" =>
    /\ ThisContents = RunLength(model)
    /\ size(This) = Len(RunLength(model))

\* C4: every entry of a SortedRangeMap or SortedRangeSet has start <= end
\* after any sequence of mutations, also after delete trimmed or split it.
C4_StartBeforeEnd ==
  \A i \in 1..Len(entries) : heap[entries[i].range][1] <= heap[entries[i].range][2]

\* C4 witness: a delete on a SortedRangeSet left one-key ranges on both
\* sides of the deleted range.
C4_Witness ==
  /\ kind = "SortedRangeSet"
  /\ op.name = "delete" /\ op.ret = "true"
  /\ \E i \in 1..(Len(entries) - 1) :
       /\ heap[entries[i].range] = <<RangeOf(op.range)[1] - 1, RangeOf(op.range)[1] - 1>>
       /\ heap[entries[i + 1].range] = <<RangeOf(op.range)[2] + 1, RangeOf(op.range)[2] + 1>>

\* C5: set(range, value) with a valid range returns the map itself; after it
\* get(k) of every key k of range is an entry with that value whose range
\* contains all of range, and every key outside range has the association
\* it had before.
C5_Set ==
  [][(op'.name = "set" /\ op'.ret # "TypeError") =>
       /\ op'.ret = "this"
       /\ \A k \in Keys :
            IF k \in KeysOf(RangeOf(op'.range))
            THEN /\ Len(get(This', k)) = 1
                 /\ get(This', k)[1].value = op'.value[1]
                 /\ get(This', k)[1].range[1] <= RangeOf(op'.range)[1]
                 /\ get(This', k)[1].range[2] >= RangeOf(op'.range)[2]
            ELSE ThisAssoc'[k] = ThisAssoc[k]]_vars

\* C5 witness: a set overwrote part of the key space and left differently
\* valued entries touching it on both sides.
C5_Witness ==
  /\ op.name = "set" /\ op.ret = "this"
  /\ \E i \in 2..(Len(entries) - 1) :
       /\ heap[entries[i].range] = RangeOf(op.range)
       /\ heap[entries[i - 1].range][2] + 1 = heap[entries[i].range][1]
       /\ heap[entries[i].range][2] + 1 = heap[entries[i + 1].range][1]

\* C6: delete(range) returns true exactly when some key of range was covered
\* before the call, and when it returns false the entries are unchanged.
C6_DeleteReturn ==
  [][(op'.name = "delete" /\ op'.target = "this" /\ op'.ret # "TypeError") =>
       /\ op'.ret = "true" <=> \E k \in KeysOf(RangeOf(op'.range)) : ThisAssoc[k] # {}
       /\ op'.ret = "false" => ThisContents' = ThisContents]_vars

\* C6 witness: a delete returned false on a structure that has entries on
\* both sides of the range.
C6_Witness ==
  /\ op.name = "delete" /\ op.ret = "false"
  /\ Len(entries) >= 2
  /\ heap[entries[1].range][2] < RangeOf(op.range)[1]
  /\ heap[entries[Len(entries)].range][1] > RangeOf(op.range)[2]

\* C7: after delete(range) no key of range is covered (hasAny(range) is
\* false and has(k) is false for each of its keys) and every key outside
\* range keeps the association it had before.
C7_DeleteEffect ==
  [][(op'.name = "delete" /\ op'.target = "this" /\ op'.ret # "TypeError") =>
       /\ hasAny(This', op'.range) = "false"
       /\ \A k \in Keys :
            IF k \in KeysOf(RangeOf(op'.range))
            THEN ~has(This', k)
            ELSE ThisAssoc'[k] = ThisAssoc[k]]_vars

\* C7 witness: a delete removed keys and left covered keys on both sides of
\* the range, directly next to it.
C7_Witness ==
  /\ op.name = "delete" /\ op.ret = "true"
  /\ kind = "SortedRangeMap"
  /\ RangeOf(op.range)[1] < RangeOf(op.range)[2]
  /\ has(This, RangeOf(op.range)[1] - 1)
  /\ has(This, RangeOf(op.range)[2] + 1)

\* The call recorded in o was handed a rejected range.
RejectedCall(o) ==
  IF o.name = "new"
  THEN \E i \in 1..Len(o.iter) : Rejected(o.iter[i][1])
  ELSE Rejected(o.range)

\* C8: set, delete, slice, hasAll, hasAny, add and both constructors throw a
\* TypeError exactly when handed a range with start > end or a non-integer
\* end, and then the entries are what they were before the call.
C8_InvalidRange ==
  [][(op'.name \in {"new", "set", "add", "delete", "slice", "hasAll", "hasAny"}) =>
       /\ op'.ret = "TypeError" <=> RejectedCall(op')
       /\ op'.ret = "TypeError" => (ThisContents' = ThisContents /\ entries' = entries)]_vars

\* C8 witness: a slice threw on a structure that has entries.
C8_Witness ==
  /\ op.name = "slice" /\ op.ret = "TypeError"
  /\ Len(entries) >= 2

\* C9: the map slice(range) returns associates exactly the keys of range
\* the original associated, with the same values; so in it has(k) implies k
\* is in range, and hasAll(q) implies q is within range and was covered.
C9_Slice ==
  [][(op'.name = "slice" /\ op'.ret # "TypeError") =>
       /\ \A k \in Keys :
            /\ ThisAssoc'[k] = IF k \in KeysOf(RangeOf(op'.range)) THEN ThisAssoc[k] ELSE {}
            /\ has(This', k) => k \in KeysOf(RangeOf(op'.range))
       /\ \A q \in ValidRaw(MaxKey) :
            hasAll(This', q) = "true" =>
              /\ KeysOf(RangeOf(q)) \subseteq KeysOf(RangeOf(op'.range))
              /\ \A k \in KeysOf(RangeOf(q)) : ThisAssoc[k] # {}]_vars

\* C9 witness: a slice returned several entries that span exactly its
\* range, which leaves out keys on both sides.
C9_Witness ==
  /\ op.name = "slice" /\ op.ret = "copy"
  /\ Len(entries) >= 2
  /\ heap[entries[1].range][1] = RangeOf(op.range)[1]
  /\ heap[entries[Len(entries)].range][2] = RangeOf(op.range)[2]
  /\ RangeOf(op.range)[1] > 0
  /\ RangeOf(op.range)[2] < MaxKey

\* The range arrays two entries arrays have in common.
Shared(e, c) == {e[i].range : i \in 1..Len(e)} \cap {c[i].range : i \in 1..Len(c)}

\* C10: slice leaves the original's entries unchanged and the structure it
\* returns shares no range array with the original: a later set/add, delete
\* or clear on either one leaves the other's entries unchanged.
C10_SliceIndependent ==
  [][/\ op'.name = "slice" => ThisContents' = ThisContents
     /\ Shared(entries, copy)' = {}
     /\ (copied /\ op'.target = "this") => CopyContents' = CopyContents
     /\ (copied /\ op'.target = "copy") => ThisContents' = ThisContents]_vars

\* C10 witness: after a slice returned entries, a delete trimmed the
\* original, which still has entries.
C10_Witness ==
  /\ copied /\ after = 1
  /\ op.name = "delete" /\ op.target = "this" /\ op.ret = "true"
  /\ Len(copy) >= 1
  /\ Len(entries) >= 1

\* C11: hasAll(range) is true exactly when every integer key of range is
\* covered by some entry, whatever the values of the covering entries, and
\* false when a key of range lies in a gap or outside all entries.
C11_HasAll ==
  (op.name = "hasAll" /\ op.ret # "TypeError") =>
    /\ op.ret \in {"true", "false"}
    /\ op.ret = "true" <=> \A k \in KeysOf(RangeOf(op.range)) : ThisAssoc[k] # {}

\* C11 witness: hasAll returned true for a range covered by two adjacent
\* entries with different values.
C11_Witness ==
  /\ op.name = "hasAll" /\ op.ret = "true"
  /\ \E i \in 1..(Len(entries) - 1) :
       /\ entries[i].value # entries[i + 1].value
       /\ heap[entries[i].range][2] + 1 = heap[entries[i + 1].range][1]
       /\ RangeOf(op.range)[1] <= heap[entries[i].range][2]
       /\ RangeOf(op.range)[2] >= heap[entries[i + 1].range][1]

\* C12: hasAny(range) is true exactly when some integer key of range is
\* covered, also when neither end of range is covered but an entry lies
\* between them; on a one-key range it agrees with has(key).
C12_HasAny ==
  (op.name = "hasAny" /\ op.ret # "TypeError") =>
    /\ op.ret \in {"true", "false"}
    /\ op.ret = "true" <=> \E k \in KeysOf(RangeOf(op.range)) : ThisAssoc[k] # {}
    /\ RangeOf(op.range)[1] = RangeOf(op.range)[2] =>
         (op.ret = "true" <=> has(This, RangeOf(op.range)[1]))

\* C12 witness: hasAny returned true for a range whose two ends are both
\* uncovered.
C12_Witness ==
  /\ op.name = "hasAny" /\ op.ret = "true"
  /\ ThisAssoc[RangeOf(op.range)[1]] = {}
  /\ ThisAssoc[RangeOf(op.range)[2]] = {}

\* Entry i (counted from 1) of the structure under test contains key.
Contains(i, key) == heap[entries[i].range][1] <= key /\ key <= heap[entries[i].range][2]

\* C13: indexOf(key) is the index of the entry containing key when there is
\* one; otherwise it is ~insertIndex = -(insertIndex + 1), insertIndex being
\* the number of entries lying entirely below key, so -1 on an empty
\* structure; has(key) is true exactly when indexOf(key) >= 0.
C13_IndexOf ==
  op.name = "indexOf" =>
    /\ IF \E i \in 1..Len(entries) : Contains(i, op.arg)
       THEN op.out[1] \in 0..(Len(entries) - 1) /\ Contains(op.out[1] + 1, op.arg)
       ELSE op.out[1] =
              -(Cardinality({i \in 1..Len(entries) : heap[entries[i].range][2] < op.arg}) + 1)
    /\ has(This, op.arg) <=> op.out[1] >= 0
    /\ Len(entries) = 0 => op.out[1] = -1

\* C13 witness: indexOf answered ~1 for a key in the gap between the first
\* entry and other entries above the key.
C13_Witness ==
  /\ op.name = "indexOf" /\ op.out[1] = -2
  /\ Len(entries) >= 2
  /\ heap[entries[1].range][2] < op.arg
  /\ op.arg < heap[entries[2].range][1]

\* C14: get(key) returns the entry whose range contains key, with the value
\* the reference map associates with key, and undefined when no entry
\* contains key; SortedRangeSet.get returns the containing range alone.
C14_Get ==
  op.name = "get" =>
    /\ op.out = <<>> <=> ~\E i \in 1..Len(entries) : Contains(i, op.arg)
    /\ op.arg \in Keys => (op.out = <<>> <=> model[op.arg] = <<>>)
    /\ \A i \in 1..Len(entries) :
         Contains(i, op.arg) =>
           IF kind = "SortedRangeSet"
           THEN op.out = <<heap[entries[i].range]>>
           ELSE /\ op.out = <<[range |-> heap[entries[i].range], value |-> entries[i].value]>>
                /\ <<op.out[1].value>> = model[op.arg]

\* C14 witness: get returned the second entry of a map for a key inside
\* its range, the first entry carrying another value.
C14_Witness ==
  /\ kind = "SortedRangeMap"
  /\ op.name = "get" /\ op.out # <<>>
  /\ Len(entries) >= 2
  /\ Contains(2, op.arg)
  /\ entries[1].value # entries[2].value
  /\ heap[entries[2].range][1] < heap[entries[2].range][2]

\* What at and default iteration hand out for entry i (counted from 1) of
\* the structure under test: the entry of a map, the range of a set.
Handed(i) ==
  IF kind = "SortedRangeSet"
  THEN heap[entries[i].range]
  ELSE [range |-> heap[entries[i].range], value |-> entries[i].value]

\* C15: at(index) is the entry at position index for 0 <= index < size, the
\* entry at position size + index for -size <= index < 0, so at(-1) is
\* at(size - 1), and undefined for every other index, hence for every index
\* on an empty structure.
C15_At ==
  op.name = "at" =>
    IF 0 <= op.arg /\ op.arg < Len(entries)
    THEN op.out = <<Handed(op.arg + 1)>>
    ELSE IF -Len(entries) <= op.arg /\ op.arg < 0
         THEN op.out = <<Handed(Len(entries) + op.arg + 1)>>
         ELSE op.out = <<>>

\* C15 witness: at(-size) returned the first of several entries.
C15_Witness ==
  /\ op.name = "at" /\ op.out # <<>>
  /\ Len(entries) >= 2
  /\ op.arg = -Len(entries)

\* C16: keys() of a SortedRangeMap or SortedRangeSet yields the covered
\* integer keys, each exactly once, in strictly ascending order, and no key
\* that is not covered.
C16_Keys ==
  op.name = "keys" =>
    /\ \A i \in 1..(Len(op.out[1]) - 1) : op.out[1][i] < op.out[1][i + 1]
    /\ {op.out[1][i] : i \in 1..Len(op.out[1])} = {k \in Keys : ThisAssoc[k] # {}}
    /\ {op.out[1][i] : i \in 1..Len(op.out[1])} = {k \in Keys : model[k] # <<>>}

\* C16 witness: keys() of a set went through a range of several keys, a
\* gap, and a further range.
C16_Witness ==
  /\ kind = "SortedRangeSet"
  /\ op.name = "keys"
  /\ Len(entries) = 2
  /\ Len(op.out[1]) = MaxKey
  /\ heap[entries[1].range][1] < heap[entries[1].range][2]

\* The ranges default iteration of a SortedRangeSet yields, in order.
ThisRanges == [i \in 1..Len(entries) |-> heap[entries[i].range]]

\* The maximal runs of consecutive keys of the reference set, ascending.
ModelRanges == [i \in 1..Len(RunLength(model)) |-> RunLength(model)[i][1]]

\* C17: after any sequence of constructor, add, delete, clear and slice
\* calls the ranges of a SortedRangeSet are the maximal runs of consecutive
\* integers of the reference set of keys in ascending order; consecutive
\* ranges neither overlap nor touch (end < next start - 1); add returns the
\* set it was called on.
C17_SetRefinement ==
  kind = "SortedRangeSet" =>
    /\ ThisRanges = ModelRanges
    /\ \A i \in 1..(Len(entries) - 1) :
         heap[entries[i].range][2] < heap[entries[i + 1].range][1] - 1
    /\ (op.name = "add" /\ op.ret # "TypeError") => op.ret = "this"

\* C17 witness: an add filled the gap between two ranges of a set, which
\* became one range reaching beyond the added range on both sides.
C17_Witness ==
  /\ kind = "SortedRangeSet"
  /\ op.name = "add" /\ op.ret = "this"
  /\ Len(entries) = 1
  /\ heap[entries[1].range][1] < RangeOf(op.range)[1]
  /\ heap[entries[1].range][2] > RangeOf(op.range)[2]

\* An empty structure after set (add for a SortedRangeSet) was called for
\* each of the first n elements of iter in order, in a heap of its own.
RECURSIVE SetEach(_, _, _)
SetEach(k, iter, n) ==
  IF n = 0
  THEN [heap |-> <<>>, ents |-> <<>>]
  ELSE IF k = "SortedRangeSet"
       THEN add(SetEach(k, iter, n - 1), iter[n][1]).st
       ELSE set(SetEach(k, iter, n - 1), iter[n][1], iter[n][2]).st

\* The entries of SetEach over all of iter.
SetEachContents(k, iter) ==
  Contents(SetEach(k, iter, Len(iter)).heap, SetEach(k, iter, Len(iter)).ents)

\* C18: a SortedRangeMap (SortedRangeSet) constructed from an iterable has
\* exactly the entries of an empty structure after set (add) was called for
\* each element in order: on a key of several elements the last one wins,
\* and the entries are sorted, disjoint, minimal and well formed at once;
\* constructed from null or undefined the structure is empty.
C18_Constructor ==
  [][/\ (op'.name = "new" /\ op'.ret # "TypeError") =>
          /\ ThisContents' = SetEachContents(kind, op'.iter)
          /\ \A k \in Keys :
               ThisAssoc'[k] = {modelNew(op'.iter, Len(op'.iter))[k][i] :
                                  i \in 1..Len(modelNew(op'.iter, Len(op'.iter))[k])}
          /\ C1_SortedDisjoint' /\ C2_Minimal' /\ C4_StartBeforeEnd'
     /\ op'.name = "newWithout" => (entries' = <<>> /\ size(This') = 0)]_vars

\* C18 witness: a map was constructed from two entries with different
\* values, the second of which overwrote keys of the first and left two
\* entries.
C18_Witness ==
  /\ kind = "SortedRangeMap"
  /\ op.name = "new" /\ op.ret = "this"
  /\ Len(op.iter) = 2
  /\ op.iter[1][2] # op.iter[2][2]
  /\ KeysOf(RangeOf(op.iter[1][1])) \cap KeysOf(RangeOf(op.iter[2][1])) # {}
  /\ Len(entries) = 2

\* C19: the structure shares no range array with its caller.  Writing to an
\* entry or range that at, get, entries(), ranges() or default iteration
\* handed out, or to the array that was passed to set or add, leaves the
\* entries of the structure unchanged; handing out leaves them unchanged;
\* and what was handed out keeps its endpoints through a later set, add or
\* delete on the structure.
C19_NoSharing ==
  [][/\ Shared(entries, copy)' = {}
     /\ op'.name \in {"write", "writeValue"} => ThisContents' = ThisContents
     /\ op'.name \in {"keepGet", "keepAt", "keepEntries", "keepRanges"} =>
          ThisContents' = ThisContents
     /\ (copied /\ op'.name \in {"set", "add", "delete"}) => CopyContents' = CopyContents]_vars

\* C19 witness: after a later call on the map the caller wrote to an array
\* it holds, which now differs in the written element, and in nothing else,
\* from an entry's range that still has the old endpoints.
C19_Witness ==
  /\ op.name = "write"
  /\ after = 1
  /\ kind = "SortedRangeMap"
  /\ \E i \in 1..Len(copy), e \in 1..Len(entries) :
       /\ op.arg = i
       /\ heap[copy[i].range] # heap[entries[e].range]
       /\ heap[entries[e].range][op.out[1]] # op.out[2]
       /\ [heap[copy[i].range] EXCEPT ![op.out[1]] = heap[entries[e].range][op.out[1]]]
            = heap[entries[e].range]

\* A step of the README usage on rangeSet: the call name(range) on a set
\* whose ranges are was leaves the ranges becomes.
ReadmeSetStep(was, name, range, becomes) ==
  (ThisRanges = was /\ op'.name = name /\ op'.range = <<Num(range[1]), Num(range[2])>>) =>
    ThisRanges' = becomes

\* An indexOf of the README usage on the final rangeSet.
ReadmeSetIndexOf(key, index) ==
  (ThisRanges = <<<<1, 2>>, <<6, 7>>>> /\ op'.name = "indexOf" /\ op'.arg = key) =>
    op'.out = <<index>>

\* C20: from an empty SortedRangeSet, add([5,6]) gives [[5,6]], add([1,4])
\* gives [[1,6]], add([3,7]) gives [[1,7]], add([-4,-2]) gives
\* [[-4,-2],[1,7]], delete([3,5]) gives [[-4,-2],[1,2],[6,7]] and
\* delete([-5,0]) gives [[1,2],[6,7]]; on that set indexOf(0) = -1,
\* indexOf(1) = 0 and indexOf(8) = -3.
C20_ReadmeSet ==
  [][kind = "SortedRangeSet" =>
       /\ ReadmeSetStep(<<>>, "add", <<5, 6>>, <<<<5, 6>>>>)
       /\ ReadmeSetStep(<<<<5, 6>>>>, "add", <<1, 4>>, <<<<1, 6>>>>)
       /\ ReadmeSetStep(<<<<1, 6>>>>, "add", <<3, 7>>, <<<<1, 7>>>>)
       /\ ReadmeSetStep(<<<<1, 7>>>>, "add", <<-4, -2>>, <<<<-4, -2>>, <<1, 7>>>>)
       /\ ReadmeSetStep(<<<<-4, -2>>, <<1, 7>>>>, "delete", <<3, 5>>,
                        <<<<-4, -2>>, <<1, 2>>, <<6, 7>>>>)
       /\ ReadmeSetStep(<<<<-4, -2>>, <<1, 2>>, <<6, 7>>>>, "delete", <<-5, 0>>,
                        <<<<1, 2>>, <<6, 7>>>>)
       /\ ReadmeSetIndexOf(0, -1)
       /\ ReadmeSetIndexOf(1, 0)
       /\ ReadmeSetIndexOf(8, -3)]_vars

\* C20 witness: indexOf(8) was called on the set the README usage ends
\* with.
C20_Witness ==
  /\ kind = "SortedRangeSet"
  /\ op.name = "indexOf" /\ op.arg = 8 /\ op.out = <<-3>>
  /\ ThisRanges = <<<<1, 2>>, <<6, 7>>>>

\* A step of the README usage on rangeMap: the call on a map whose entries
\* are was leaves the entries becomes.
ReadmeMapStep(was, name, range, value, becomes) ==
  (/\ ThisContents = was
   /\ op'.name = name
   /\ op'.range = <<Num(range[1]), Num(range[2])>>
   /\ op'.value = value) =>
    ThisContents' = becomes

\* C21: from an empty SortedRangeMap, set([5,6],42) and then set([1,4],42)
\* give [[[1,6],42]], set([3,7],3) then gives [[[1,2],42],[[3,7],3]], and
\* set([-4,-2],8) then gives [[[-4,-2],8],[[1,2],42],[[3,7],3]].
C21_ReadmeMap ==
  [][kind = "SortedRangeMap" =>
       /\ ReadmeMapStep(<<>>, "set", <<5, 6>>, <<"42">>, <<<<<<5, 6>>, "42">>>>)
       /\ ReadmeMapStep(<<<<<<5, 6>>, "42">>>>, "set", <<1, 4>>, <<"42">>,
                        <<<<<<1, 6>>, "42">>>>)
       /\ ReadmeMapStep(<<<<<<1, 6>>, "42">>>>, "set", <<3, 7>>, <<"3">>,
                        <<<<<<1, 2>>, "42">>, <<<<3, 7>>, "3">>>>)
       /\ ReadmeMapStep(<<<<<<1, 2>>, "42">>, <<<<3, 7>>, "3">>>>, "set", <<-4, -2>>, <<"8">>,
                        <<<<<<-4, -2>>, "8">>, <<<<1, 2>>, "42">>, <<<<3, 7>>, "3">>>>)]_vars

\* C21 witness: set([-4,-2],8) was called on [[[1,2],42],[[3,7],3]].
C21_Witness ==
  /\ kind = "SortedRangeMap"
  /\ op.name = "set" /\ op.range = <<Num(-4), Num(-2)>> /\ op.value = <<"8">>
  /\ ThisContents = <<<<<<-4, -2>>, "8">>, <<<<1, 2>>, "42">>, <<<<3, 7>>, "3">>>>

C23_AtWrapsEvery ==
  (op.name = "at" /\ Len(entries) > 0) =>
    op.out = <<Handed((op.arg % Len(entries)) + 1)>>

\* C24 as stated: the sequences of entries(), keys(), ranges() and values()
\* are restartable: a second pass over a produced sequence that was consumed
\* to the end, with no mutation in between, yields the elements the first
\* pass yielded, in the same order.
C24_Restartable ==
  (op.name = "iterate" /\ op.pass = 2 /\ op.ended) => op.out = op.first

\* The value a set or add call recorded in o stores.
Stored(o) == IF o.name = "add" THEN Placeholder ELSE o.value[1]

\* Entry i ends right before range r and holds a value === to v.
AdjacentBefore(i, r, v) ==
  /\ heap[entries[i].range][2] + 1 = r[1]
  /\ strictEquals(entries[i].value, v)

\* Entry j starts right after range r and holds a value === to v.
AdjacentAfter(j, r, v) ==
  /\ heap[entries[j].range][1] = r[2] + 1
  /\ strictEquals(entries[j].value, v)

\* The key k is covered by an entry holding a value === to v.
CoveredEqual(k, v) ==
  /\ get(This, k) # <<>>
  /\ strictEquals(get(This, k)[1].value, v)

\* The range of the entry that holds range r after a set with value v: it
\* reaches back to the start of the entry covering the key before r and
\* forward to the end of the entry covering the key after r, when these hold
\* a value === to v.
MergedRange(r, v) ==
  <<IF CoveredEqual(r[1] - 1, v) THEN get(This, r[1] - 1)[1].range[1] ELSE r[1],
    IF CoveredEqual(r[2] + 1, v) THEN get(This, r[2] + 1)[1].range[2] ELSE r[2]>>

\* C25: a set(range, value) or add(range) whose range is adjacent on both
\* sides to entries holding a value === to the stored one leaves a single
\* entry from the predecessor's start to the successor's end in the place of
\* the two and of everything between them (so [1,2] and [6,7] of a set become
\* [1,7] after add([3,5])); in every case the entry holding range afterwards
\* is extended exactly over the sides whose neighbouring key was covered
\* with an equal value, so when only one side is adjacent with an equal
\* value only that side is merged.
C25_MergeSides ==
  [][(op'.name \in {"set", "add"} /\ op'.target = "this" /\ op'.ret = "this") =>
       /\ \A p, s \in 1..Len(entries) :
            (/\ AdjacentBefore(p, RangeOf(op'.range), Stored(op'))
             /\ AdjacentAfter(s, RangeOf(op'.range), Stored(op')))
            => ThisContents' =
                 SubSeq(ThisContents, 1, p - 1)
                   \o <<<<<<ThisContents[p][1][1], ThisContents[s][1][2]>>, Stored(op')>>>>
                   \o SubSeq(ThisContents, s + 1, Len(entries))
       /\ \E i \in 1..Len(entries') :
            ThisContents'[i] = <<MergedRange(RangeOf(op'.range), Stored(op')), Stored(op')>>]_vars

\* C25 witness: add([1,1]) left the single range [0,3] in a set whose keys
\* 0 and 3 were covered: the ranges on both sides are merged with it.
C25_Witness ==
  /\ kind = "SortedRangeSet"
  /\ op.name = "add" /\ op.range = <<Num(1), Num(1)>>
  /\ model[3] # <<>>
  /\ Len(entries) = 1
  /\ heap[entries[1].range] = <<0, 3>>

\* Range r lies strictly inside entry i: the entry starts before r and ends
\* after it.
StrictlyInside(r, i) ==
  /\ heap[entries[i].range][1] < r[1]
  /\ r[2] < heap[entries[i].range][2]

\* The entries with entry i split around range r.
SplitAround(r, i) ==
  SubSeq(ThisContents, 1, i - 1)
    \o <<<<<<ThisContents[i][1][1], r[1] - 1>>, ThisContents[i][2]>>,
         <<<<r[2] + 1, ThisContents[i][1][2]>>, ThisContents[i][2]>>>>
    \o SubSeq(ThisContents, i + 1, Len(entries))

\* C26: delete(range) with range strictly inside one entry [a,b] replaces
\* that entry by [a, range.start - 1] and [range.end + 1, b], both with the
\* entry's value, leaves the other entries as they are and returns true, so
\* size grows by one; a delete that is not of this kind never increases
\* size.
C26_DeleteSplits ==
  [][(op'.name = "delete" /\ op'.target = "this" /\ op'.ret # "TypeError") =>
       /\ \A i \in 1..Len(entries) :
            StrictlyInside(RangeOf(op'.range), i) =>
              /\ ThisContents' = SplitAround(RangeOf(op'.range), i)
              /\ Len(entries') = Len(entries) + 1
              /\ op'.ret = "true"
       /\ Len(entries') > Len(entries) =>
            \E i \in 1..Len(entries) : StrictlyInside(RangeOf(op'.range), i)]_vars

\* C26 witness: delete([1,2]) split the entry [0,3] of a SortedRangeMap
\* into [0,0] and [3,3].
C26_Witness ==
  /\ kind = "SortedRangeMap"
  /\ op.name = "delete" /\ op.range = <<Num(1), Num(2)>> /\ op.ret = "true"
  /\ Len(entries) = 2
  /\ ThisContents[1] = <<<<0, 0>>, "a">>
  /\ ThisContents[2] = <<<<3, 3>>, "a">>

\* Entry i intersects range r.
Intersects(r, i) ==
  /\ heap[entries[i].range][1] <= r[2]
  /\ heap[entries[i].range][2] >= r[1]

\* What a delete of range r leaves of entry f, the first one it intersects:
\* the part before r, or nothing when r starts at or before its start.
TrimmedFirst(r, f) ==
  IF r[1] <= ThisContents[f][1][1]
  THEN <<>>
  ELSE <<<<<<ThisContents[f][1][1], r[1] - 1>>, ThisContents[f][2]>>>>

\* What a delete of range r leaves of entry l, the last one it intersects:
\* the part after r, or nothing when r ends at or after its end.
TrimmedLast(r, l) ==
  IF r[2] >= ThisContents[l][1][2]
  THEN <<>>
  ELSE <<<<<<r[2] + 1, ThisContents[l][1][2]>>, ThisContents[l][2]>>>>

\* C27: when delete(range) intersects several entries, from entry f to
\* entry l, the entries afterwards are the entries before f unchanged and
\* in order, f trimmed to end at range.start - 1 (or nothing when
\* range.start <= its start), l trimmed to start at range.end + 1 (or
\* nothing when range.end >= its end), and the entries after l unchanged and
\* in order: every entry between f and l is removed.
C27_DeleteSeveral ==
  [][(op'.name = "delete" /\ op'.target = "this" /\ op'.ret # "TypeError") =>
       \A f, l \in 1..Len(entries) :
         (/\ f < l
          /\ Intersects(RangeOf(op'.range), f)
          /\ Intersects(RangeOf(op'.range), l)
          /\ \A i \in 1..Len(entries) : Intersects(RangeOf(op'.range), i) => f <= i /\ i <= l)
         => ThisContents' =
              SubSeq(ThisContents, 1, f - 1)
                \o TrimmedFirst(RangeOf(op'.range), f)
                \o TrimmedLast(RangeOf(op'.range), l)
                \o SubSeq(ThisContents, l + 1, Len(entries))]_vars

\* C27 witness: delete([1,2]) on a SortedRangeMap deleted keys and left
\* what two entries with different values keep on either side of the
\* range, [0,0] and [3,3].
C27_Witness ==
  /\ kind = "SortedRangeMap"
  /\ op.name = "delete" /\ op.range = <<Num(1), Num(2)>> /\ op.ret = "true"
  /\ ThisContents = <<<<<<0, 0>>, "a">>, <<<<3, 3>>, "NaN">>>>
  /\ model[1] = <<>> /\ model[2] = <<>>

\* The entries of a store, read as [range, value] pairs.
ContentsOf(st) == Contents(st.heap, st.ents)

\* C28 as stated: for any valid ranges r1 and r2 and any value v,
\* set(r1, v) then set(r2, v) leaves a SortedRangeMap with the entries that
\* set(r2, v) then set(r1, v) leaves it with, and add(r1) then add(r2)
\* leaves a SortedRangeSet with the ranges that add(r2) then add(r1) leaves
\* it with.
C28_OrderOfSets ==
  \A r1, r2 \in ValidRaw(MaxSmallKey) :
    IF kind = "SortedRangeSet"
    THEN ContentsOf(add(add(This, r1).st, r2).st) = ContentsOf(add(add(This, r2).st, r1).st)
    ELSE \A v \in Values :
           ContentsOf(set(set(This, r1, v).st, r2, v).st) =
             ContentsOf(set(set(This, r2, v).st, r1, v).st)

\* C29: when hasAny(range) is false, set(range, value) (or add(range))
\* followed by delete(range) leaves exactly the entries there were before
\* the set, a merge of the new range with adjacent entries holding an equal
\* value being undone, and the delete returns true.
C29_SetDeleteRestores ==
  [][(op'.name \in {"setDelete", "addDelete"} /\ op'.any = "false") =>
       /\ ThisContents' = ThisContents
       /\ op'.ret = "true"]_vars

\* C29 witness: set([1,1],'a') and delete([1,1]) on a map that covered no
\* key of [1,1] left [0,0] and [2,2] holding 'a': the set merged the three
\* and the delete split them again.
C29_Witness ==
  /\ op.name = "setDelete" /\ op.any = "false"
  /\ op.range = <<Num(1), Num(1)>> /\ op.value = <<"a">>
  /\ ThisContents = <<<<<<0, 0>>, "a">>, <<<<2, 2>>, "a">>>>

\* A test of the loop of indexOf: an iteration probes an index within
\* 0..size-1 and leaves the interval [low, high] strictly smaller, and the
\* loop ends only by returning what indexOf returns, never by throwing.
SearchShrinks ==
  (op.name = "search" /\ op'.name = "search") =>
    /\ op'.s.middle # op.s.middle =>
         /\ op'.s.middle[1] \in 0..(Len(entries) - 1)
         /\ op'.s.high - op'.s.low < op.s.high - op.s.low \/ op'.s.done
    /\ op'.s.middle = op.s.middle => op'.s.done
    /\ ~op'.s.threw
    /\ op'.s.done => op'.s.out = <<indexOf(This, op.key)>>

\* C30: the binary search of indexOf terminates for every structure and
\* key: every iteration of its loop probes an index middle within
\* 0..size-1, so the entry read there exists, and leaves the interval
\* [low, high] strictly smaller, and every call that started returns.
C30_SearchTerminates ==
  /\ [][SearchShrinks]_vars
  /\ (op.name = "search") ~> (op.name = "search" /\ op.s.done)

\* C30 witness: indexOf returned ~size after probing further and further
\* up in a structure of at least three entries.
C30_Witness ==
  /\ op.name = "search" /\ op.s.done
  /\ Len(entries) >= 3
  /\ op.s.out = <<BitNot(Len(entries))>>
  /\ op.s.middle = <<Len(entries) - 1>>

====
